---- MODULE Spec2Model ----
(***************************************************************************)
(* A model of the summon crate (src/src/lib.rs): the Tome registry of      *)
(* transmutation circles, the recursive recipe search research_id with     *)
(* Recipe::join, and the execution of a recipe against Materials.          *)
(***************************************************************************)
EXTENDS Integers, Sequences, FiniteSets, TLC

\* ---------------------------------------------------------------- bounds
\* At most MaxRules inscribe/ether calls are made on one Tome.
MaxRules == 4
\* The items handed to ether() are drawn from 1..NumValues.
NumValues == 2

\* ------------------------------------------------------------ type keys
\* The TypeIds in play (struct A, B, C of tests/basic.rs and a fourth, D).
Types == {"A", "B", "C", "D"}

\* --------------------------------------------------------- transmutations
\* Ether<T>(item): no ingredients, product T.  seq is filled in by inscribe:
\* it stands for the identity of the boxed object (the n-th box pushed on
\* the list of its product).
Ether(T, item) ==
    [kind |-> "Ether", product |-> T, ingredients |-> <<>>, item |-> item, seq |-> 0]

\* The Temporary<F> struct a circle!/fusion! invocation expands to.
Temporary(ingredients, product) ==
    [kind |-> "Temporary", product |-> product, ingredients |-> ingredients,
     item |-> 0, seq |-> 0]

\* The values a Box<dyn Any> can hold.  A closure body is opaque, so the
\* value a Temporary produces is the term "this circle applied to these
\* inputs"; an Ether produces a clone of its item.
Clone(item) == [by |-> "Ether", seq |-> 0, item |-> item, args |-> <<>>]
Call(circle, inputs) ==
    [by |-> circle.product, seq |-> circle.seq, item |-> 0, args |-> inputs]

\* What panics look like in the model.
NoPanic == "none"
UnwrapNone == "called Option::unwrap() on a None value"
WrongArity == "transmute passed incorrect number of arguments"
NotFound == "material was not found"

\* Transmutation::transmute: <<value>> when it returns, <<>> when it panics
\* on the number of arguments (lib.rs:89-94).  Ether ignores its inputs.
transmute(circle, inputs) ==
    IF circle.kind = "Ether" THEN <<Clone(circle.item)>>
    ELSE IF Len(inputs) = Len(circle.ingredients) THEN <<Call(circle, inputs)>>
    ELSE <<>>

\* The circles and facts the callers of this model inscribe.
Circles ==
    { Temporary(<<"A">>, "B"),
      Temporary(<<"A">>, "C"),
      Temporary(<<"B">>, "C"),
      Temporary(<<"A", "B">>, "C"),
      Temporary(<<"B", "C">>, "D"),
      Temporary(<<"B">>, "A"),
      Temporary(<<>>, "B") }
EtherTypes == {"A", "B"}

\* ------------------------------------------------------------------ state
VARIABLES
    circles,    \* Tome.circles: product type key -> list of circles
    pc,         \* where the caller is: "idle", "collect", "done", "panic", "diverge"
    target,     \* the T of the summon::<T>() in progress or last made
    recipe,     \* what research_id(target) returned to preserve
    pos,        \* position of recipe.steps.into_iter() in from_iter
    materials,  \* Materials.materials: type key -> value
    result,     \* what summon returned: <<>> is None, <<v>> is Some(v)
    err         \* the panic message when pc = "panic"

vars == <<circles, pc, target, recipe, pos, materials, result, err>>

NoType == "-"
NoMaterials == [k \in {} |-> Clone(0)]

\* Option<Recipe> as a record.
NoCall == [tag |-> "NoCall", steps |-> <<>>, products |-> <<>>]
None == [tag |-> "None", steps |-> <<>>, products |-> <<>>]
Some(r) == [tag |-> "Some", steps |-> r.steps, products |-> r.products]

\* ----------------------------------------------------------------- Recipe
\* Recipe::default()
Default == [steps |-> <<>>, products |-> <<>>]

\* impl From<&dyn Transmutation> for Recipe
From(circle) == [steps |-> <<circle>>, products |-> (circle.product :> 0)]

\* The orders in which a HashMap with key set S can be iterated.
RECURSIVE IterationOrders(_)
IterationOrders(S) ==
    IF S = {} THEN {<<>>}
    ELSE UNION {{<<k>> \o o : o \in IterationOrders(S \ {k})} : k \in S}

\* The for loop of Recipe::join, with other_products iterated in `order`.
RECURSIVE join_loop(_, _, _, _)
join_loop(steps, products, other, order) ==
    IF order = <<>> THEN [steps |-> steps, products |-> products]
    ELSE LET product == Head(order)
             step == other.products[product]
         IN IF product \in DOMAIN products
            THEN join_loop(steps, products, other, Tail(order))
            ELSE LET pushed == Append(steps, other.steps[step + 1])
                 IN join_loop(pushed, products @@ (product :> (Len(pushed) - 1)),
                              other, Tail(order))

\* Recipe::join: one result per iteration order of other.products.
join(self, other) ==
    {join_loop(self.steps, self.products, other, order) :
        order \in IterationOrders(DOMAIN other.products)}

\* ----------------------------------------------------------------- search
\* The outcome of a research_id call: every recipe it can return (one per
\* choice of iteration orders), None, or no return at all.
Found(rs) == [tag |-> "Some", recipes |-> rs]
Nothing == [tag |-> "None", recipes |-> {}]
Diverges == [tag |-> "Diverge", recipes |-> {}]

RECURSIVE research_id(_, _), find_map(_, _, _), fold(_, _, _, _)

\* fold as it would be with research_id called on the id being researched
\* in place of the ingredient.
fold_self(circle, j, acc, stack) ==
    IF j > Len(circle.ingredients) THEN Found(acc)
    ELSE LET next == research_id(circle.product, stack)
         IN CASE next.tag = "Diverge" -> Diverges
              [] next.tag = "None" -> Nothing
              [] OTHER ->
                   fold(circle, j + 1,
                        UNION {join(r, n) : r \in acc, n \in next.recipes}, stack)

\* ingredients.iter().fold(Some(Recipe::default()), ...): ingredient j of
\* circle, acc the recipes folded so far.  A None stops the recursion (the
\* and_then in the closure no longer calls research_id).
fold(circle, j, acc, stack) ==
    IF j > Len(circle.ingredients) THEN Found(acc)
    ELSE LET next == research_id(circle.ingredients[j], stack)
         IN CASE next.tag = "Diverge" -> Diverges
              [] next.tag = "None" -> Nothing
              [] OTHER ->
                   fold(circle, j + 1,
                        UNION {join(r, n) : r \in acc, n \in next.recipes}, stack)

\* find_map as it would be if only the first candidate were tried.
find_map_first_only(possibilities, i, stack) ==
    IF i > Len(possibilities) THEN Nothing
    ELSE LET circle == possibilities[i]
             folded == fold(circle, 1, {Default}, stack)
         IN CASE folded.tag = "Diverge" -> Diverges
              [] folded.tag = "None" -> Nothing
              [] OTHER -> Found(UNION {join(r, From(circle)) : r \in folded.recipes})

\* find_map as it would be with the last join the other way round.
find_map_swapped(possibilities, i, stack) ==
    IF i > Len(possibilities) THEN Nothing
    ELSE LET circle == possibilities[i]
             folded == fold(circle, 1, {Default}, stack)
         IN CASE folded.tag = "Diverge" -> Diverges
              [] folded.tag = "None" -> find_map(possibilities, i + 1, stack)
              [] OTHER -> Found(UNION {join(From(circle), r) : r \in folded.recipes})

\* possibilities.iter().find_map(...): the first circle, from the i-th on,
\* whose ingredients all have a recipe.
find_map(possibilities, i, stack) ==
    IF i > Len(possibilities) THEN Nothing
    ELSE LET circle == possibilities[i]
             folded == fold(circle, 1, {Default}, stack)
         IN CASE folded.tag = "Diverge" -> Diverges
              [] folded.tag = "None" -> find_map(possibilities, i + 1, stack)
              [] OTHER -> Found(UNION {join(r, From(circle)) : r \in folded.recipes})

\* Tome::research_id.  stack holds the type keys whose research_id frames
\* are open: a call for one of them repeats itself for ever.
research_id(id, stack) ==
    IF id \in stack THEN Diverges
    ELSE find_map(circles[id], 1, stack \cup {id})

\* --------------------------------------------------------------- registry
\* The insertion of an unstable sort: the new element goes before its equals.
RECURSIVE insert_unstable(_, _)
insert_unstable(sorted, c) ==
    IF sorted = <<>> THEN <<c>>
    ELSE IF Len(Head(sorted).ingredients) < Len(c.ingredients)
         THEN <<Head(sorted)>> \o insert_unstable(Tail(sorted), c)
         ELSE <<c>> \o sorted

\* The insertion of a sort by descending key.
RECURSIVE insert_descending(_, _)
insert_descending(sorted, c) ==
    IF sorted = <<>> THEN <<c>>
    ELSE IF Len(Head(sorted).ingredients) >= Len(c.ingredients)
         THEN <<Head(sorted)>> \o insert_descending(Tail(sorted), c)
         ELSE <<c>> \o sorted

\* inscribe without its sort_by_key call.
sort_skipped(list) == list

\* Vec::sort_by_key(|c| c.ingredients().len()): a stable sort, as insertion
\* of each element after the elements whose key is not greater.
RECURSIVE insert_sorted(_, _)
insert_sorted(sorted, c) ==
    IF sorted = <<>> THEN <<c>>
    ELSE IF Len(Head(sorted).ingredients) <= Len(c.ingredients)
         THEN <<Head(sorted)>> \o insert_sorted(Tail(sorted), c)
         ELSE <<c>> \o sorted

RECURSIVE sort_by_key(_)
sort_by_key(list) ==
    IF list = <<>> THEN <<>>
    ELSE insert_sorted(sort_by_key(SubSeq(list, 1, Len(list) - 1)), list[Len(list)])

RECURSIVE Total(_)
Total(S) ==
    IF S = {} THEN 0
    ELSE LET t == CHOOSE t \in S : TRUE IN Len(circles[t]) + Total(S \ {t})

Idle == pc \in {"idle", "done"}

\* Tome::inscribe
inscribe(circle) ==
    /\ Idle
    /\ Total(Types) < MaxRules
    /\ LET boxed == [circle EXCEPT !.seq = Len(circles[circle.product]) + 1]
       IN circles' = [circles EXCEPT
                        ![circle.product] = sort_by_key(Append(@, boxed))]
    /\ pc' = "idle"
    /\ target' = NoType
    /\ recipe' = NoCall
    /\ pos' = 0
    /\ materials' = NoMaterials
    /\ result' = <<>>
    /\ err' = NoPanic

\* Tome::ether
ether(T, item) == inscribe(Ether(T, item))

\* --------------------------------------------------------------- execution
\* The ingredients vector collected in reverse.
Inputs_reversed(circle, mats) ==
    [i \in 1..Len(circle.ingredients) |->
        LET g == circle.ingredients[Len(circle.ingredients) + 1 - i]
        IN IF g \in DOMAIN mats THEN <<mats[g]>> ELSE <<>>]

\* The ingredients vector Materials::apply collects: <<>> in place of a
\* missing one (Materials::get returned None).
Inputs(circle, mats) ==
    [i \in 1..Len(circle.ingredients) |->
        IF circle.ingredients[i] \in DOMAIN mats
        THEN <<mats[circle.ingredients[i]]>> ELSE <<>>]

Unwrapped(gets) == [i \in 1..Len(gets) |-> gets[i][1]]

Insert(mats, k, v) == [x \in DOMAIN mats \cup {k} |-> IF x = k THEN v ELSE mats[x]]

\* Tome::summon up to the return of research (preserve, research, research_id).
summon(T) ==
    /\ Idle
    /\ target' = T
    /\ LET outcome == research_id(T, {})
       IN CASE outcome.tag = "Diverge" ->
                 /\ pc' = "diverge"
                 /\ recipe' = NoCall
            [] outcome.tag = "None" ->
                 /\ pc' = "done"
                 /\ recipe' = None
            [] OTHER ->
                 /\ pc' = "collect"
                 /\ \E r \in outcome.recipes : recipe' = Some(r)
    /\ pos' = 1
    /\ materials' = NoMaterials
    /\ result' = <<>>
    /\ err' = NoPanic
    /\ UNCHANGED circles

\* One turn of the loop of Materials::from_iter: Materials::apply.
apply ==
    /\ pc = "collect"
    /\ pos <= Len(recipe.steps)
    /\ LET circle == recipe.steps[pos]
           gets == Inputs(circle, materials)
       IN IF \E i \in 1..Len(gets) : gets[i] = <<>>
          THEN /\ pc' = "panic"
               /\ err' = UnwrapNone
               /\ UNCHANGED <<materials, pos>>
          ELSE LET product == transmute(circle, Unwrapped(gets))
               IN IF product = <<>>
                  THEN /\ pc' = "panic"
                       /\ err' = WrongArity
                       /\ UNCHANGED <<materials, pos>>
                  ELSE /\ materials' = Insert(materials, circle.product, product[1])
                       /\ pos' = pos + 1
                       /\ UNCHANGED <<pc, err>>
    /\ UNCHANGED <<circles, target, recipe, result>>

\* Materials::into_material, and the return of summon.
into_material ==
    /\ pc = "collect"
    /\ pos > Len(recipe.steps)
    /\ IF target \in DOMAIN materials
       THEN /\ result' = <<materials[target]>>
            /\ materials' = [k \in DOMAIN materials \ {target} |-> materials[k]]
            /\ pc' = "done"
            /\ err' = NoPanic
       ELSE /\ pc' = "panic"
            /\ err' = NotFound
            /\ UNCHANGED <<result, materials>>
    /\ UNCHANGED <<circles, target, recipe, pos>>

\* Tome::new()
Init ==
    /\ circles = [t \in Types |-> <<>>]
    /\ pc = "idle"
    /\ target = NoType
    /\ recipe = NoCall
    /\ pos = 0
    /\ materials = NoMaterials
    /\ result = <<>>
    /\ err = NoPanic

Next ==
    \/ \E c \in Circles : inscribe(c)
    \/ \E T \in EtherTypes, item \in 1..NumValues : ether(T, item)
    \/ \E T \in Types : summon(T)
    \/ apply
    \/ into_material

Spec == Init /\ [][Next]_vars

\* ------------------------------------------------- notions the claims use
Registered(T) == {circles[T][i] : i \in 1..Len(circles[T])}
Range(seq) == {seq[i] : i \in 1..Len(seq)}
Needs(circle) == Range(circle.ingredients)

\* The ingredient graph: an edge from a product to each ingredient.
Succ(t) == UNION {Needs(c) : c \in Registered(t)}

RECURSIVE Closure(_)
Closure(S) ==
    LET more == S \cup UNION {Succ(t) : t \in S}
    IN IF more = S THEN S ELSE Closure(more)

Reach(t) == Closure(Succ(t))
Acyclic == \A t \in Types : t \notin Reach(t)
CycleReachable(T) == \E u \in {T} \cup Reach(T) : u \in Reach(u)

\* The least set holding each type with a rule whose ingredients it holds.
RECURSIVE Grow(_)
Grow(D) ==
    LET more == D \cup {t \in Types : \E c \in Registered(t) : Needs(c) \subseteq D}
    IN IF more = D THEN D ELSE Grow(more)

Derivable == Grow({})

Called == target # NoType
Planned == recipe.tag = "Some"
Returned == pc = "done" /\ result # <<>>
Steps == recipe.steps
Produced(steps) == {steps[i].product : i \in 1..Len(steps)}

\* How many values Materials::apply has inserted under key k so far.
Inserts(k) == Cardinality({i \in 1..(pos - 1) : i <= Len(Steps) /\ Steps[i].product = k})

\* The store with the extracted target put back.
Store == IF Returned THEN Insert(materials, target, result[1]) ELSE materials

\* ----------------------------------------------------------------- claims

\* C1: in every plan research_id returns on an acyclic registry, each step
\* comes after the steps producing its ingredients, so Materials::apply
\* never finds an ingredient missing.
C1_PlanOrderSound ==
    (Acyclic /\ Planned) =>
        /\ \A i \in 1..Len(Steps) : \A g \in Needs(Steps[i]) :
              \E k \in 1..(i - 1) : Steps[k].product = g
        /\ err # UnwrapNone

\* C2: two research_id calls for the same target with no inscribe/ether
\* between them return the same step sequence.
C2_Deterministic ==
    [][(recipe.tag # "NoCall" /\ recipe'.tag # "NoCall"
           /\ target' = target /\ circles' = circles)
        => recipe'.steps = recipe.steps]_vars

\* The registry of the diamond: B and C each need A, D needs B and C.
Diamond ==
    /\ \A t \in Types : Len(circles[t]) = 1
    /\ Needs(circles["A"][1]) = {}
    /\ circles["B"][1].ingredients = <<"A">>
    /\ circles["C"][1].ingredients = <<"A">>
    /\ circles["D"][1].ingredients = <<"B", "C">>

\* C3: no plan produces a type key in two steps; and in the diamond the
\* plan for D has one step producing A and summon::<D>() inserts A into
\* the store exactly once.
C3_DedupOncePerSummon ==
    /\ Planned =>
          \A i, j \in 1..Len(Steps) : Steps[i].product = Steps[j].product => i = j
    /\ (Diamond /\ target = "D" /\ pc \in {"done", "panic"}) =>
          /\ Cardinality({i \in 1..Len(Steps) : Steps[i].product = "A"}) = 1
          /\ Inserts("A") = 1

\* C4: on an acyclic registry summon::<T>() returns None exactly when T is
\* not derivable (and so does research_id).
C4_NoneIffUnderivable ==
    (Acyclic /\ Called) =>
        /\ (pc = "done" /\ result = <<>>) <=> target \notin Derivable
        /\ recipe.tag = "None" <=> target \notin Derivable
        /\ Planned <=> target \in Derivable

\* A later candidate was taken after an earlier one failed.
C4_Witness ==
    /\ Acyclic /\ Returned
    /\ Steps[Len(Steps)] # circles[target][1]

\* Registration order within one product list, and the preference order.
Satisfiable(c) == Needs(c) \subseteq Derivable
Preferred(c, d) ==
    \/ Len(c.ingredients) < Len(d.ingredients)
    \/ Len(c.ingredients) = Len(d.ingredients) /\ c.seq <= d.seq

\* C5: the step producing T in the plan for T is the first rule, by
\* ascending ingredient count and then registration order, whose
\* ingredients are all derivable; never a rule with more ingredients than
\* another satisfiable one.
C5_FewestIngredients ==
    Planned =>
        \A i \in 1..Len(Steps) : Steps[i].product = target =>
            /\ Steps[i] \in Registered(target)
            /\ Satisfiable(Steps[i])
            /\ \A d \in Registered(target) : Satisfiable(d) => Preferred(Steps[i], d)

\* Two satisfiable rules with different ingredient counts competed.
C5_Witness ==
    /\ Planned
    /\ \E c, d \in Registered(target) :
          /\ Satisfiable(c) /\ Satisfiable(d)
          /\ Len(c.ingredients) < Len(d.ingredients)
          /\ c.seq > d.seq

\* The rule the latest inscribe/ether call for product T pushed.
Latest(T) == CHOOSE c \in Registered(T) : c.seq = Len(circles[T])
ZeroIngredient(T) == {c \in Registered(T) : c.ingredients = <<>>}
Earliest(S) == CHOOSE c \in S : \A d \in S : c.seq <= d.seq
AfterEther == Called /\ circles[target] # <<>> /\ Latest(target).kind = "Ether"

\* C6 as stated: once ether(V) has registered V for F, summon::<F>()
\* returns V and its plan is that one rule, whatever was registered before.
C6_FactShortcut ==
    (AfterEther /\ pc = "done") =>
        /\ result = <<Clone(Latest(target).item)>>
        /\ Steps = <<Latest(target)>>

\* C6 amended: once ether(V) has registered V for F, summon::<F>() runs a
\* plan of one rule, the earliest registered zero-ingredient rule for F,
\* and returns what that rule produces; that is V when no zero-ingredient
\* rule for F was registered before.
C6_FirstFactShortcut ==
    AfterEther =>
        LET first == Earliest(ZeroIngredient(target))
        IN /\ Planned
           /\ Steps = <<first>>
           /\ pc \in {"collect", "done"}
           /\ pc = "done" => result = transmute(first, <<>>)
           /\ (pc = "done" /\ ZeroIngredient(target) = {Latest(target)})
                 => result = <<Clone(Latest(target).item)>>

\* summon::<F>() returned after ether registered a fact for an F that had
\* other rules already.
C6_Witness ==
    /\ AfterEther /\ Returned
    /\ Len(circles[target]) > 1
    /\ ZeroIngredient(target) = {Latest(target)}

\* C7: every product list is sorted by ascending ingredient count, equal
\* counts in registration order; it holds each rule registered for the
\* product exactly once, and no rule ever leaves it.
C7_Ordered ==
    \A t \in Types :
        /\ \A i, j \in 1..Len(circles[t]) : i < j =>
              /\ Len(circles[t][i].ingredients) <= Len(circles[t][j].ingredients)
              /\ Len(circles[t][i].ingredients) = Len(circles[t][j].ingredients)
                    => circles[t][i].seq < circles[t][j].seq
        /\ \A n \in 1..Len(circles[t]) :
              Cardinality({i \in 1..Len(circles[t]) : circles[t][i].seq = n}) = 1
        /\ \A c \in Registered(t) : c.product = t

C7_RegistryOrdering ==
    /\ []C7_Ordered
    /\ [][\A t \in Types :
            /\ Registered(t) \subseteq {c \in Range(circles'[t]) : TRUE}
            /\ Len(circles'[t]) \in {Len(circles[t]), Len(circles[t]) + 1}]_vars

\* The sort moved a rule in front of one registered earlier, and a tie was
\* kept in registration order.
C7_Witness ==
    \E t \in Types : \E i, j, k \in 1..Len(circles[t]) :
        /\ i < j /\ circles[t][i].seq > circles[t][j].seq
        /\ k # i /\ Len(circles[t][k].ingredients) = Len(circles[t][i].ingredients)

\* C8 as stated: research_id(T) never returns when a cycle is reachable
\* from T, and returns when none is.
C8_CycleNeverReturns ==
    Called => (pc = "diverge" <=> CycleReachable(target))

\* C8 amended: research_id(T) fails to return only if a cycle is reachable
\* from T (it returns whenever none is); a reachable cycle that the search
\* does not enter does not keep it from returning.
C8_DivergesOnlyOnCycle ==
    Called =>
        /\ pc = "diverge" => CycleReachable(target)
        /\ ~CycleReachable(target) => pc \in {"collect", "done", "panic"}

C8_Witness == Called /\ pc = "diverge"

\* What a step must have put into the store, given the store.
Fed(c) ==
    IF c.kind = "Ether" THEN Clone(c.item)
    ELSE Call(c, [j \in 1..Len(c.ingredients) |-> Store[c.ingredients[j]]])

\* T has one rule, a circle, and each of its ingredients has a fact as
\* first candidate.
FactFed(T) ==
    /\ Len(circles[T]) = 1
    /\ circles[T][1].kind = "Temporary"
    /\ \A g \in Needs(circles[T][1]) :
          circles[g] # <<>> /\ circles[g][1].ingredients = <<>>

FirstFact(g) == transmute(circles[g][1], <<>>)[1]

\* C9: every applied step was given one value per ingredient, the i-th
\* being the one stored under its i-th ingredient, and its result is stored
\* under its product; a rule fed by facts returns its transform of the fact
\* values in declared order; the argument-count panic never happens.
C9_ExecutorFeeds ==
    /\ err # WrongArity
    /\ Planned =>
          \A i \in 1..(pos - 1) : i <= Len(Steps) =>
              /\ Steps[i].product \in DOMAIN Store
              /\ Store[Steps[i].product] = Fed(Steps[i])
    /\ (Called /\ FactFed(target)) =>
          /\ pc \in {"collect", "done"}
          /\ pc = "done" =>
                LET R == circles[target][1]
                IN result = <<Call(R, [j \in 1..Len(R.ingredients) |->
                                          FirstFact(R.ingredients[j])])>>

\* A rule with two fact ingredients holding different values returned.
C9_Witness ==
    /\ Called /\ FactFed(target) /\ Returned
    /\ Len(result[1].args) = 2
    /\ result[1].args[1] # result[1].args[2]

\* C10: on an acyclic registry every plan for T ends with the step
\* producing T, its product map sends each key to the index of the step
\* producing it, with as many entries as steps; into_material never panics.
C10_TargetLast ==
    /\ err # NotFound
    /\ (Acyclic /\ Planned) =>
          /\ Len(Steps) >= 1
          /\ Steps[Len(Steps)].product = target
          /\ DOMAIN recipe.products = Produced(Steps)
          /\ Cardinality(DOMAIN recipe.products) = Len(Steps)
          /\ \A k \in DOMAIN recipe.products :
                /\ recipe.products[k] \in 0..(Len(Steps) - 1)
                /\ Steps[recipe.products[k] + 1].product = k

\* into_material extracted the target after a plan of several steps.
C10_Witness == Acyclic /\ Returned /\ Len(Steps) >= 3

====
